---- MODULE Spec2Model ----
(***************************************************************************)
(* Masked Soften/Harden Normals (mesh_masked_smooth_normals.py).           *)
(* The five operators of the add-on, executed step by step over a small    *)
(* mesh: vertices, edges, polygons and loops with their selection flags,   *)
(* the object's mode, and the custom split normals stored per loop.        *)
(* Indices are 1-based here (Python's are 0-based); a polygon's loops are  *)
(* loop_start .. loop_start + loop_total - 1.                              *)
(***************************************************************************)
EXTENDS Integers, Sequences, FiniteSets, TLC

(***************************************************************************)
(* mathutils.Vector, exactly.  A vector is <<kind, x, y, z>>:              *)
(*   <<"r", x, y, z>>  is the rational vector (x, y, z) / Scale;           *)
(*   <<"u", x, y, z>>  is the unit vector (x, y, z) / |(x, y, z)| with     *)
(*                     (x, y, z) primitive, used only when that unit       *)
(*                     vector is not a rational vector over Scale.         *)
(* Every vector has one representation, so = is equality of vectors.       *)
(***************************************************************************)
Scale == 3

Vec(x, y, z) == <<"r", x, y, z>>

Vector == Vec(0, 0, 0)

Neg(v) == <<v[1], 0 - v[2], 0 - v[3], 0 - v[4]>>

Add(a, b) == Vec(a[2] + b[2], a[3] + b[3], a[4] + b[4])

Mul(v, k) == Vec(v[2] * k, v[3] * k, v[4] * k)

Abs(i) == IF i < 0 THEN 0 - i ELSE i

RECURSIVE Gcd(_, _)
Gcd(a, b) == IF b = 0 THEN a ELSE Gcd(b, a % b)

Length2(v) == v[2] * v[2] + v[3] * v[3] + v[4] * v[4]

normalized(v) ==
    IF v[1] = "u" \/ Length2(v) = 0 THEN v
    ELSE LET g  == Gcd(Gcd(Abs(v[2]), Abs(v[3])), Abs(v[4]))
             p  == <<v[2] \div g, v[3] \div g, v[4] \div g>>
             n2 == p[1] * p[1] + p[2] * p[2] + p[3] * p[3]
             Ls == {l \in 1..Scale : l * l = n2 /\ Scale % l = 0}
         IN  IF Ls = {} THEN <<"u", p[1], p[2], p[3]>>
             ELSE LET l == CHOOSE l \in Ls : TRUE
                  IN  Vec(p[1] * (Scale \div l), p[2] * (Scale \div l),
                          p[3] * (Scale \div l))

(***************************************************************************)
(* The meshes.  Mesh 1 is a quad made of two triangles sharing the         *)
(* diagonal 1-3; mesh 2 is one quad and a loose vertex 5.                  *)
(***************************************************************************)
Meshes == <<
    [ nverts      |-> 4,
      polygons    |-> << [loop_start |-> 1, loop_total |-> 3],
                         [loop_start |-> 4, loop_total |-> 3] >>,
      loop_vertex |-> <<1, 2, 3, 1, 3, 4>>,
      edges       |-> << {1, 2}, {2, 3}, {1, 3}, {3, 4}, {1, 4} >>,
      area        |-> <<1, 2>> ],
    [ nverts      |-> 5,
      polygons    |-> << [loop_start |-> 1, loop_total |-> 4] >>,
      loop_vertex |-> <<1, 2, 3, 4>>,
      edges       |-> << {1, 2}, {2, 3}, {3, 4}, {1, 4} >>,
      area        |-> <<2>> ] >>

Verts(me)    == 1..Meshes[me].nverts
Edges(me)    == 1..Len(Meshes[me].edges)
Polys(me)    == 1..Len(Meshes[me].polygons)
Loops(me)    == 1..Len(Meshes[me].loop_vertex)

PolyLoops(me, p) ==
    LET pl == Meshes[me].polygons[p]
    IN  pl.loop_start .. (pl.loop_start + pl.loop_total - 1)

LoopPoly(me, l) == CHOOSE p \in Polys(me) : l \in PolyLoops(me, p)

PolyVerts(me, lv, p) == {lv[l] : l \in PolyLoops(me, p)}

\* the polygons of which e is a side: its ends are consecutive corners
EdgePolys(me, lv, e) ==
    {p \in Polys(me) :
        LET pl == Meshes[me].polygons[p]
        IN  \E k \in 0..(pl.loop_total - 1) :
               {lv[pl.loop_start + k],
                lv[pl.loop_start + ((k + 1) % pl.loop_total)]}
                   = Meshes[me].edges[e]}

PolyEdges(me, lv, p) == {e \in Edges(me) : p \in EdgePolys(me, lv, e)}

\* a set of indices below n as the ascending list the mesh iterates in
RECURSIVE Ascending(_, _)
Ascending(S, n) ==
    IF n = 0 THEN << >>
    ELSE IF n \in S THEN Append(Ascending(S, n - 1), n)
         ELSE Ascending(S, n - 1)

vert_link_faces(me, lv, v) ==
    Ascending({p \in Polys(me) : v \in PolyVerts(me, lv, p)},
              Len(Meshes[me].polygons))

vert_link_edges(me, v) ==
    Ascending({e \in Edges(me) : v \in Meshes[me].edges[e]},
              Len(Meshes[me].edges))

edge_link_faces(me, lv, e) ==
    Ascending(EdgePolys(me, lv, e), Len(Meshes[me].polygons))

(***************************************************************************)
(* State.                                                                  *)
(***************************************************************************)
VARIABLES
    me,           \* context.object.data: which mesh of Meshes
    select_mode,  \* context.tool_settings.mesh_select_mode (vert, edge, face)
    vselect,      \* v.select of every vertex
    eselect,      \* e.select of every edge
    pselect,      \* p.select of every polygon
    loop_vertex,  \* loop.vertex_index of every loop (the winding)
    poly_normal,  \* p.normal / f.normal of every polygon
    loop_normal,  \* the custom split normals: loop.normal after
                  \* calc_normals_split, replaced by normals_split_custom_set
    mode,         \* context.object.mode
    pc,           \* "idle", or the call the running execute() is about to make
    opr,          \* the running (or last) operator and its properties
    vn,           \* the override set {'vertex_indices', 'vertex_normals'}
    clnors,       \* flip_normals' copy of the split normals
    log           \* the operators invoked so far, each with the split
                  \* normals it found

vars == <<me, select_mode, vselect, eselect, pselect, loop_vertex,
          poly_normal, loop_normal, mode, pc, opr, vn, clnors, log>>

(***************************************************************************)
(* get_linked_faces                                                        *)
(***************************************************************************)
RECURSIVE Extend(_, _)
Extend(ls_edges, n) ==
    IF n = 0 THEN << >>
    ELSE Extend(ls_edges, n - 1) \o edge_link_faces(me, loop_vertex, ls_edges[n])

get_linked_faces(vertex, smooth_mode, ignore_selection) ==
    IF smooth_mode = "face"
    THEN SelectSeq(vert_link_faces(me, loop_vertex, vertex),
                   LAMBDA f : pselect[f] \/ ignore_selection)
    ELSE IF smooth_mode = "edge"
    THEN LET ls_edges == SelectSeq(vert_link_edges(me, vertex),
                                   LAMBDA e : eselect[e] \/ ignore_selection)
         IN  Extend(ls_edges, Len(ls_edges))
    ELSE vert_link_faces(me, loop_vertex, vertex)

(***************************************************************************)
(* set_smooth_normals: the array handed to normals_split_custom_set        *)
(***************************************************************************)
\* list.index: the first position holding x
index(list, x) ==
    CHOOSE i \in 1..Len(list) :
        list[i] = x /\ \A j \in 1..(i - 1) : list[j] # x

InList(x, list) == \E i \in 1..Len(list) : list[i] = x

\* as set_smooth_normals, but a loop without override keeps the Vector()
\* the list was created with
set_smooth_normals_default(vertex_indices, vertex_normals) ==
    [l \in Loops(me) |->
        IF InList(loop_vertex[l], vertex_indices)
        THEN vertex_normals[index(vertex_indices, loop_vertex[l])]
        ELSE Vector]

set_smooth_normals(vertex_indices, vertex_normals) ==
    [l \in Loops(me) |->
        IF InList(loop_vertex[l], vertex_indices)
        THEN vertex_normals[index(vertex_indices, loop_vertex[l])]
        ELSE loop_normal[l]]

(***************************************************************************)
(* flip_normals: the array built from the copy taken before the flip       *)
(***************************************************************************)
\* as flip_normals, but the whole loop range is reversed
flip_normals_whole_range(copy) ==
    [l \in Loops(me) |->
        LET p == Meshes[me].polygons[LoopPoly(me, l)]
        IN  IF pselect[LoopPoly(me, l)]
            THEN Neg(copy[p.loop_start + (p.loop_start + p.loop_total - 1) - l])
            ELSE copy[l]]

\* as flip_normals, but the loop range is rotated by one, not reversed
flip_normals_rotated(copy) ==
    [l \in Loops(me) |->
        LET p == Meshes[me].polygons[LoopPoly(me, l)]
        IN  IF pselect[LoopPoly(me, l)]
            THEN Neg(copy[p.loop_start
                            + ((l - p.loop_start + 1) % p.loop_total)])
            ELSE copy[l]]

flip_normals(copy) ==
    LET negated == [l \in Loops(me) |->
                       IF pselect[LoopPoly(me, l)] THEN Neg(copy[l])
                       ELSE copy[l]]
    IN  [l \in Loops(me) |->
            LET p  == Meshes[me].polygons[LoopPoly(me, l)]
                ls == p.loop_start + 1
                le == ls + p.loop_total - 1
            IN  IF pselect[LoopPoly(me, l)] /\ l >= ls /\ l < le
                THEN negated[ls + (le - 1) - l]
                ELSE negated[l]]

\* bpy.ops.mesh.flip_normals: the winding of every selected polygon is
\* reversed about its first corner, and its face normal changes sign
mesh_flip_normals_winding ==
    [l \in Loops(me) |->
        LET p == Meshes[me].polygons[LoopPoly(me, l)]
        IN  IF pselect[LoopPoly(me, l)] /\ l > p.loop_start
            THEN loop_vertex[p.loop_start + p.loop_total
                               - (l - p.loop_start)]
            ELSE loop_vertex[l]]

mesh_flip_normals_normal ==
    [p \in Polys(me) |->
        IF pselect[p] THEN Neg(poly_normal[p]) ELSE poly_normal[p]]

(***************************************************************************)
(* harden_normals, set_specific_normal_vector                              *)
(***************************************************************************)
\* as harden_normals, without the test of p.select
harden_normals_unmasked ==
    [l \in Loops(me) |-> poly_normal[LoopPoly(me, l)]]

\* as harden_normals, but the split normals are copied negated, the way
\* flip_normals negates them
harden_normals_negated ==
    [l \in Loops(me) |->
        IF pselect[LoopPoly(me, l)] THEN poly_normal[LoopPoly(me, l)]
        ELSE Neg(loop_normal[l])]

harden_normals ==
    [l \in Loops(me) |->
        IF pselect[LoopPoly(me, l)] THEN poly_normal[LoopPoly(me, l)]
        ELSE loop_normal[l]]

set_specific_normal_vector(normal) ==
    LET n == normalized(normal)
    IN  [l \in Loops(me) |->
            IF pselect[LoopPoly(me, l)] THEN normal ELSE loop_normal[l]]

(***************************************************************************)
(* get_smoothed_vertex_normals, get_face_weighted_normals                  *)
(***************************************************************************)
RECURSIVE SumNormals(_, _)
SumNormals(ls_faces, n) ==
    IF n = 0 THEN Vector
    ELSE Add(SumNormals(ls_faces, n - 1), poly_normal[ls_faces[n]])

RECURSIVE SumWeighted(_, _)
SumWeighted(ls_faces, n) ==
    IF n = 0 THEN Vector
    ELSE Add(SumWeighted(ls_faces, n - 1),
             Mul(poly_normal[ls_faces[n]], Meshes[me].area[ls_faces[n]]))

\* as get_smoothed_vertex_normals, without the test len(ls_faces) > 0
get_smoothed_vertex_normals_unguarded(smooth_mode) ==
    LET vertex_indices == Ascending({v \in Verts(me) : vselect[v]},
                                    Meshes[me].nverts)
    IN  [vertex_indices |-> vertex_indices,
         vertex_normals |->
            [i \in 1..Len(vertex_indices) |->
                LET ls_faces == get_linked_faces(vertex_indices[i],
                                                 smooth_mode, FALSE)
                IN  normalized(SumNormals(ls_faces, Len(ls_faces)))]]

\* as get_smoothed_vertex_normals, without vertex_normal.normalize()
get_smoothed_vertex_normals_unnormalized(smooth_mode) ==
    LET selected_verts == Ascending({v \in Verts(me) : vselect[v]},
                                    Meshes[me].nverts)
        vertex_indices ==
            SelectSeq(selected_verts,
                      LAMBDA v : Len(get_linked_faces(v, smooth_mode, FALSE)) > 0)
    IN  [vertex_indices |-> vertex_indices,
         vertex_normals |->
            [i \in 1..Len(vertex_indices) |->
                LET ls_faces == get_linked_faces(vertex_indices[i],
                                                 smooth_mode, FALSE)
                IN  SumNormals(ls_faces, Len(ls_faces))]]

get_smoothed_vertex_normals(smooth_mode) ==
    LET selected_verts == Ascending({v \in Verts(me) : vselect[v]},
                                    Meshes[me].nverts)
        vertex_indices ==
            SelectSeq(selected_verts,
                      LAMBDA v : Len(get_linked_faces(v, smooth_mode, FALSE)) > 0)
    IN  [vertex_indices |-> vertex_indices,
         vertex_normals |->
            [i \in 1..Len(vertex_indices) |->
                LET ls_faces == get_linked_faces(vertex_indices[i],
                                                 smooth_mode, FALSE)
                IN  normalized(SumNormals(ls_faces, Len(ls_faces)))]]

get_face_weighted_normals(smooth_mode) ==
    LET smooth_all == (smooth_mode = "all")
        selected_verts ==
            IF smooth_all THEN Ascending(Verts(me), Meshes[me].nverts)
            ELSE Ascending({v \in Verts(me) : vselect[v]}, Meshes[me].nverts)
        linked(v) ==
            IF smooth_all THEN vert_link_faces(me, loop_vertex, v)
            ELSE get_linked_faces(v, smooth_mode, FALSE)
        vertex_indices ==
            SelectSeq(selected_verts, LAMBDA v : Len(linked(v)) > 0)
    IN  [vertex_indices |-> vertex_indices,
         vertex_normals |->
            [i \in 1..Len(vertex_indices) |->
                LET ls_faces == linked(vertex_indices[i])
                IN  normalized(SumWeighted(ls_faces, Len(ls_faces)))]]

(***************************************************************************)
(* Bounds and inputs.                                                      *)
(***************************************************************************)
MaxOps == 2      \* operators invoked in one behaviour

\* unit face normals: +z, -z, and a tilted one
FaceNormals == {Vec(0, 0, 3), Vec(0, 0, -3), Vec(1, 2, 2)}

\* custom_normal as the caller may pass it: (0,0,2) and (1,0,0)
CustomNormals == {Vec(0, 0, 6), Vec(3, 0, 0)}

SelectModes ==
    {sm \in [1..3 -> BOOLEAN] : sm[1] \/ sm[2] \/ sm[3]}

\* the selection flags the editor keeps for a select mode: with vertex
\* select on, edges and polygons follow the vertices; else with edge
\* select on, vertices and polygons follow the edges; else vertices and
\* edges follow the polygons
FlushedSelection(m, sm, vs, es, ps) ==
    LET lv == Meshes[m].loop_vertex
    IN  IF sm[1]
        THEN /\ es = [e \in Edges(m) |->
                         \A v \in Meshes[m].edges[e] : vs[v]]
             /\ ps = [p \in Polys(m) |->
                         \A v \in PolyVerts(m, lv, p) : vs[v]]
        ELSE IF sm[2]
        THEN /\ vs = [v \in Verts(m) |->
                         \E e \in Edges(m) : es[e] /\ v \in Meshes[m].edges[e]]
             /\ ps = [p \in Polys(m) |->
                         \A e \in PolyEdges(m, lv, p) : es[e]]
        ELSE /\ vs = [v \in Verts(m) |->
                         \E p \in Polys(m) : ps[p] /\ v \in PolyVerts(m, lv, p)]
             /\ es = [e \in Edges(m) |->
                         \E p \in EdgePolys(m, lv, e) : ps[p]]

NoOperator ==
    [name |-> "none", flag |-> FALSE, custom_normal |-> Vector,
     initial_mode |-> "EDIT", smooth_mode |-> "none"]

Init ==
    /\ me \in 1..Len(Meshes)
    /\ select_mode \in SelectModes
    /\ vselect \in [Verts(me) -> BOOLEAN]
    /\ eselect \in [Edges(me) -> BOOLEAN]
    /\ pselect \in [Polys(me) -> BOOLEAN]
    /\ FlushedSelection(me, select_mode, vselect, eselect, pselect)
    /\ loop_vertex = [l \in Loops(me) |-> Meshes[me].loop_vertex[l]]
    /\ poly_normal \in [Polys(me) -> FaceNormals]
    /\ loop_normal \in
          { [l \in Loops(me) |-> poly_normal[LoopPoly(me, l)]],
            [l \in Loops(me) |-> normalized(Vec(l, 0, 1))] }
    /\ mode \in {"EDIT", "OBJECT"}
    /\ pc = "idle"
    /\ opr = NoOperator
    /\ vn = [vertex_indices |-> << >>, vertex_normals |-> << >>]
    /\ clnors = << >>
    /\ log = << >>

(***************************************************************************)
(* The operators.  An operator starts when its poll holds; each action     *)
(* runs execute() up to its next call of a function of the module.         *)
(***************************************************************************)
Invoke(o) ==
    /\ pc = "idle"
    /\ Len(log) < MaxOps
    /\ opr' = o
    /\ log' = Append(log, [op |-> o, before |-> loop_normal])

Mesh == <<me, select_mode, vselect, eselect, pselect>>

\* MaskedSoftenNormals.execute, up to get_smoothed_vertex_normals
MaskedSoftenNormals(always_use_face_mask) ==
    /\ mode = "EDIT"
    /\ Invoke([name |-> "MaskedSoftenNormals",
               flag |-> always_use_face_mask,
               custom_normal |-> Vector,
               initial_mode |-> mode,
               smooth_mode |->
                   IF select_mode[3] \/ always_use_face_mask THEN "face"
                   ELSE IF select_mode[2] THEN "edge" ELSE "vertex"])
    /\ pc' = "get_smoothed_vertex_normals"
    /\ UNCHANGED <<Mesh, loop_vertex, poly_normal, loop_normal, mode, vn,
                   clnors>>

\* vn = get_smoothed_vertex_normals(...); mode_set(OBJECT)
SoftenAggregate ==
    /\ pc = "get_smoothed_vertex_normals"
    /\ vn' = get_smoothed_vertex_normals(opr.smooth_mode)
    /\ mode' = "OBJECT"
    /\ pc' = "set_smooth_normals"
    /\ UNCHANGED <<Mesh, loop_vertex, poly_normal, loop_normal, opr, clnors,
                   log>>

\* FaceWeightedNormals.execute, up to get_face_weighted_normals
FaceWeightedNormals ==
    /\ Invoke([name |-> "FaceWeightedNormals",
               flag |-> FALSE,
               custom_normal |-> Vector,
               initial_mode |-> mode,
               smooth_mode |->
                   IF mode = "OBJECT" THEN "all"
                   ELSE IF select_mode[3] THEN "face"
                   ELSE IF select_mode[2] THEN "edge" ELSE "vertex"])
    /\ mode' = "EDIT"
    /\ pc' = "get_face_weighted_normals"
    /\ UNCHANGED <<Mesh, loop_vertex, poly_normal, loop_normal, vn, clnors>>

\* vn = get_face_weighted_normals(...); mode_set(OBJECT)
WeightedAggregate ==
    /\ pc = "get_face_weighted_normals"
    /\ vn' = get_face_weighted_normals(opr.smooth_mode)
    /\ mode' = "OBJECT"
    /\ pc' = "set_smooth_normals"
    /\ UNCHANGED <<Mesh, loop_vertex, poly_normal, loop_normal, opr, clnors,
                   log>>

\* as ModeAfterWrite, but every operator ends with mode_set("EDIT")
ModeAfterWrite_edit == "EDIT"

\* the mode_set that ends the execute() that called set_smooth_normals
ModeAfterWrite ==
    IF opr.name = "FaceWeightedNormals" THEN opr.initial_mode ELSE "EDIT"

\* set_smooth_normals(...); mode_set(...); return
WriteSmoothNormals ==
    /\ pc = "set_smooth_normals"
    /\ loop_normal' = set_smooth_normals(vn.vertex_indices, vn.vertex_normals)
    /\ mode' = ModeAfterWrite
    /\ pc' = "idle"
    /\ UNCHANGED <<Mesh, loop_vertex, poly_normal, opr, vn, clnors, log>>

\* MaskedHardenNormals.execute, up to harden_normals
MaskedHardenNormals ==
    /\ mode = "EDIT"
    /\ Invoke([name |-> "MaskedHardenNormals", flag |-> FALSE,
               custom_normal |-> Vector, initial_mode |-> mode,
               smooth_mode |-> "none"])
    /\ mode' = "OBJECT"
    /\ pc' = "harden_normals"
    /\ UNCHANGED <<Mesh, loop_vertex, poly_normal, loop_normal, vn, clnors>>

\* harden_normals(mesh_data); mode_set(EDIT); return
Harden ==
    /\ pc = "harden_normals"
    /\ loop_normal' = harden_normals
    /\ mode' = "EDIT"
    /\ pc' = "idle"
    /\ UNCHANGED <<Mesh, loop_vertex, poly_normal, opr, vn, clnors, log>>

\* FlipCustomNormals.execute, up to flip_normals
FlipCustomNormals ==
    /\ mode = "EDIT"
    /\ Invoke([name |-> "FlipCustomNormals", flag |-> FALSE,
               custom_normal |-> Vector, initial_mode |-> mode,
               smooth_mode |-> "none"])
    /\ mode' = "OBJECT"
    /\ pc' = "flip_normals"
    /\ UNCHANGED <<Mesh, loop_vertex, poly_normal, loop_normal, vn, clnors>>

\* flip_normals: copy the split normals; mode_set(EDIT)
FlipCopy ==
    /\ pc = "flip_normals"
    /\ clnors' = loop_normal
    /\ mode' = "EDIT"
    /\ pc' = "mesh.flip_normals"
    /\ UNCHANGED <<Mesh, loop_vertex, poly_normal, loop_normal, opr, vn, log>>

\* bpy.ops.mesh.flip_normals(); mode_set(OBJECT)
FlipWinding ==
    /\ pc = "mesh.flip_normals"
    /\ loop_vertex' = mesh_flip_normals_winding
    /\ poly_normal' = mesh_flip_normals_normal
    /\ mode' = "OBJECT"
    /\ pc' = "normals_split_custom_set"
    /\ UNCHANGED <<Mesh, loop_normal, opr, vn, clnors, log>>

\* the loop over me.polygons and the commit; mode_set(EDIT); return
FlipCommit ==
    /\ pc = "normals_split_custom_set"
    /\ loop_normal' = flip_normals(clnors)
    /\ mode' = "EDIT"
    /\ pc' = "idle"
    /\ UNCHANGED <<Mesh, loop_vertex, poly_normal, opr, vn, clnors, log>>

\* SetSpecificNormalVector.execute, up to its first call
SetSpecificNormalVector(custom_normal, allow_split_normals) ==
    /\ mode = "EDIT"
    /\ Invoke([name |-> "SetSpecificNormalVector",
               flag |-> allow_split_normals,
               custom_normal |-> custom_normal, initial_mode |-> mode,
               smooth_mode |-> "none"])
    /\ IF select_mode[3] /\ allow_split_normals
       THEN mode' = "OBJECT" /\ pc' = "set_specific_normal_vector"
       ELSE mode' = mode /\ pc' = "from_edit_mesh"
    /\ UNCHANGED <<Mesh, loop_vertex, poly_normal, loop_normal, vn, clnors>>

\* set_specific_normal_vector(...); mode_set(EDIT); return
SetPerPolygon ==
    /\ pc = "set_specific_normal_vector"
    /\ loop_normal' = set_specific_normal_vector(opr.custom_normal)
    /\ mode' = "EDIT"
    /\ pc' = "idle"
    /\ UNCHANGED <<Mesh, loop_vertex, poly_normal, opr, vn, clnors, log>>

\* the selected vertices read from the edit mesh, each with custom_normal
selected_vertex_overrides(custom_normal) ==
    LET vertex_indices == Ascending({v \in Verts(me) : vselect[v]},
                                    Meshes[me].nverts)
    IN  [vertex_indices |-> vertex_indices,
         vertex_normals |-> [i \in 1..Len(vertex_indices) |-> custom_normal]]

\* bm = from_edit_mesh(...); the two lists; mode_set(OBJECT)
SetPerVertexRead ==
    /\ pc = "from_edit_mesh"
    /\ vn' = selected_vertex_overrides(opr.custom_normal)
    /\ mode' = "OBJECT"
    /\ pc' = "set_smooth_normals"
    /\ UNCHANGED <<Mesh, loop_vertex, poly_normal, loop_normal, opr, clnors,
                   log>>

Next ==
    \/ \E always_use_face_mask \in BOOLEAN :
           MaskedSoftenNormals(always_use_face_mask)
    \/ SoftenAggregate
    \/ FaceWeightedNormals
    \/ WeightedAggregate
    \/ WriteSmoothNormals
    \/ MaskedHardenNormals
    \/ Harden
    \/ FlipCustomNormals
    \/ FlipCopy
    \/ FlipWinding
    \/ FlipCommit
    \/ \E custom_normal \in CustomNormals, allow_split_normals \in BOOLEAN :
           SetSpecificNormalVector(custom_normal, allow_split_normals)
    \/ SetPerPolygon
    \/ SetPerVertexRead

Spec == Init /\ [][Next]_vars

(***************************************************************************)
(* Properties.                                                             *)
(***************************************************************************)
Returned == pc = "idle" /\ log # << >>

\* the split normals the last operator found when it was invoked
In == log[Len(log)].before

\* the i-th operator has returned; the array it left
Completed(i) == i < Len(log) \/ (i = Len(log) /\ pc = "idle")
Out(i) == IF i < Len(log) THEN log[i + 1].before ELSE loop_normal

HardSetter == opr.name = "SetSpecificNormalVector"
                /\ select_mode[3] /\ opr.flag
SoftSetter == opr.name = "SetSpecificNormalVector"
                /\ ~(select_mode[3] /\ opr.flag)
Aggregated == opr.name \in {"MaskedSoftenNormals", "FaceWeightedNormals"}

\* the operator went through set_smooth_normals
Merged == Aggregated \/ SoftSetter

Overridden(v) == \E i \in 1..Len(vn.vertex_indices) : vn.vertex_indices[i] = v

\* the vertices the operator aggregates or sets a normal for
TargetVertex(v) == opr.smooth_mode = "all" \/ vselect[v]

\* the faces of a vertex under the mask, as a set
LinkedFaceSet(v, smooth_mode) ==
    IF smooth_mode = "face"
    THEN {p \in Polys(me) : pselect[p] /\ v \in PolyVerts(me, loop_vertex, p)}
    ELSE IF smooth_mode = "edge"
    THEN UNION {EdgePolys(me, loop_vertex, e) :
                  e \in {d \in Edges(me) :
                            eselect[d] /\ v \in Meshes[me].edges[d]}}
    ELSE {p \in Polys(me) : v \in PolyVerts(me, loop_vertex, p)}

\* C1: after set_smooth_normals, a loop whose vertex has an override holds
\* that override, any other loop holds the split normal it had at the start
\* of the call; loops of one overridden vertex hold the same normal.
C1_WriterMerges ==
    (Returned /\ Merged) =>
        /\ \A l \in Loops(me) :
              IF Overridden(loop_vertex[l])
              THEN \A i \in 1..Len(vn.vertex_indices) :
                      vn.vertex_indices[i] = loop_vertex[l]
                          => loop_normal[l] = vn.vertex_normals[i]
              ELSE loop_normal[l] = In[l]
        /\ \A l1, l2 \in Loops(me) :
              (loop_vertex[l1] = loop_vertex[l2] /\ Overridden(loop_vertex[l1]))
                  => loop_normal[l1] = loop_normal[l2]

\* two loops of one overridden vertex were given a new normal, and a loop
\* of a vertex without override is there too
C1_Witness ==
    /\ Returned /\ Merged
    /\ \E l1, l2, l3 \in Loops(me) :
          /\ l1 # l2 /\ loop_vertex[l1] = loop_vertex[l2]
          /\ Overridden(loop_vertex[l1])
          /\ loop_normal[l1] # In[l1] /\ loop_normal[l2] # In[l2]
          /\ In[l1] # In[l2]
          /\ ~Overridden(loop_vertex[l3])

\* C2: after flip_normals, a selected polygon with loops s .. s+n-1 has
\* out[s] = -in[s] and out[s+k] = -in[s+n-k] for 1 <= k < n; the loops of
\* the other polygons are as they were.
C2_FlipTransform ==
    (Returned /\ opr.name = "FlipCustomNormals") =>
        \A p \in Polys(me) :
            LET s == Meshes[me].polygons[p].loop_start
                n == Meshes[me].polygons[p].loop_total
            IN  IF pselect[p]
                THEN /\ loop_normal[s] = Neg(In[s])
                     /\ \A k \in 1..(n - 1) :
                           loop_normal[s + k] = Neg(In[s + n - k])
                ELSE \A l \in PolyLoops(me, p) : loop_normal[l] = In[l]

\* a quad was flipped whose four loops held four different normals
C2_Witness ==
    /\ Returned /\ opr.name = "FlipCustomNormals"
    /\ \E p \in Polys(me) :
          /\ pselect[p]
          /\ Meshes[me].polygons[p].loop_total = 4
          /\ \A l1, l2 \in PolyLoops(me, p) : l1 # l2 => In[l1] # In[l2]

\* what an operator may write: the loops of the target vertices, or the
\* loops of the selected polygons
InMask(l) ==
    IF Merged THEN TargetVertex(loop_vertex[l]) ELSE pselect[LoopPoly(me, l)]

\* C3: after any operator, a loop outside its mask holds the normal it
\* held when the operator was invoked.
C3_MaskExclusive ==
    Returned => \A l \in Loops(me) : ~InMask(l) => loop_normal[l] = In[l]

\* harden changed the loops of a selected polygon; an unselected polygon
\* shares a vertex with it
C3_Witness ==
    /\ Returned /\ opr.name = "MaskedHardenNormals"
    /\ \E l1, l2 \in Loops(me) :
          /\ pselect[LoopPoly(me, l1)] /\ ~pselect[LoopPoly(me, l2)]
          /\ loop_vertex[l1] = loop_vertex[l2]
          /\ loop_normal[l1] # In[l1]
          /\ In[l2] # poly_normal[LoopPoly(me, l2)]

\* C4: every loop that set_direction writes holds normalize(custom_normal).
C4_SetterNormalizes ==
    (Returned /\ opr.name = "SetSpecificNormalVector") =>
        \A l \in Loops(me) :
            InMask(l) => loop_normal[l] = normalized(opr.custom_normal)

NoDuplicates(list) ==
    \A i, j \in 1..Len(list) : list[i] = list[j] => i = j

\* C5: in edge mode the faces returned for a vertex are the faces of its
\* selected edges, each once.
C5_EdgeFacesOnce ==
    (pc = "set_smooth_normals" /\ opr.smooth_mode = "edge") =>
        \A v \in Verts(me) :
            vselect[v] =>
                LET ls_faces == get_linked_faces(v, "edge", FALSE)
                IN  /\ {ls_faces[i] : i \in 1..Len(ls_faces)}
                           = LinkedFaceSet(v, "edge")
                    /\ NoDuplicates(ls_faces)

\* C6: an aggregator returns no entry for a target vertex without linked
\* faces and one entry for every other target vertex; the loops of a
\* vertex left out keep their split normal.
C6_EmptyNeighbourhoodSkipped ==
    /\ (pc \in {"set_smooth_normals", "idle"} /\ Aggregated) =>
          /\ Len(vn.vertex_normals) = Len(vn.vertex_indices)
          /\ \A v \in Verts(me) :
                TargetVertex(v) =>
                    Cardinality({i \in 1..Len(vn.vertex_indices) :
                                    vn.vertex_indices[i] = v})
                      = IF LinkedFaceSet(v, opr.smooth_mode) = {} THEN 0 ELSE 1
    /\ (Returned /\ Aggregated) =>
          \A l \in Loops(me) :
              (TargetVertex(loop_vertex[l])
                 /\ LinkedFaceSet(loop_vertex[l], opr.smooth_mode) = {})
                  => loop_normal[l] = In[l]

\* a selected vertex with loops but no linked face under the mask was left
\* out, next to a selected vertex that got a new normal
C6_Witness ==
    /\ Returned /\ Aggregated
    /\ \E l1, l2 \in Loops(me) :
          /\ vselect[loop_vertex[l1]]
          /\ LinkedFaceSet(loop_vertex[l1], opr.smooth_mode) = {}
          /\ ~Overridden(loop_vertex[l1])
          /\ In[l1] # Vector
          /\ vselect[loop_vertex[l2]]
          /\ Overridden(loop_vertex[l2])
          /\ loop_normal[l2] # In[l2]

\* C7: two flips in succession leave every loop normal as it was.
C7_FlipInvolution ==
    \A i \in 1..(Len(log) - 1) :
        (/\ log[i].op.name = "FlipCustomNormals"
         /\ log[i + 1].op.name = "FlipCustomNormals"
         /\ Completed(i + 1))
            => Out(i + 1) = log[i].before

\* flipped twice, and the first flip had changed the normals
C7_Witness ==
    /\ Returned /\ Len(log) >= 2
    /\ log[Len(log) - 1].op.name = "FlipCustomNormals"
    /\ opr.name = "FlipCustomNormals"
    /\ \E p \in Polys(me) :
          /\ pselect[p]
          /\ \A l1, l2 \in PolyLoops(me, p) :
                l1 # l2 => log[Len(log) - 1].before[l1]
                             # log[Len(log) - 1].before[l2]
    /\ In # log[Len(log) - 1].before

\* C8: two hardens in succession leave the array the first one left.
C8_HardenIdempotent ==
    \A i \in 1..(Len(log) - 1) :
        (/\ log[i].op.name = "MaskedHardenNormals"
         /\ log[i + 1].op.name = "MaskedHardenNormals"
         /\ Completed(i + 1))
            => Out(i + 1) = Out(i)

\* hardened twice; the first harden changed a selected polygon, and an
\* unselected polygon kept normals that are not its face normal
C8_Witness ==
    /\ Returned /\ Len(log) >= 2
    /\ log[Len(log) - 1].op.name = "MaskedHardenNormals"
    /\ opr.name = "MaskedHardenNormals"
    /\ In # log[Len(log) - 1].before
    /\ \E l \in Loops(me) :
          ~pselect[LoopPoly(me, l)] /\ In[l] # poly_normal[LoopPoly(me, l)]

\* the two-triangle quad, everything selected, smoothed with the face mask
QuadSmoothed ==
    /\ Returned
    /\ me = 1
    /\ opr.name = "MaskedSoftenNormals" /\ opr.smooth_mode = "face"
    /\ \A p \in Polys(me) : pselect[p]
    /\ \A v \in Verts(me) : vselect[v]

\* C9 as stated: all four corners hold the normalized average of the two
\* face normals.
C9_AllCornersAverage ==
    QuadSmoothed =>
        \A l \in Loops(me) :
            loop_normal[l] = normalized(Add(poly_normal[1], poly_normal[2]))

\* C9 amended: the corners on the diagonal hold the normalized average of
\* the two face normals, each other corner holds the face normal of its
\* own triangle.
C9_DiagonalCornersAverage ==
    QuadSmoothed =>
        \A l \in Loops(me) :
            LET faces == {p \in Polys(me) :
                            loop_vertex[l] \in PolyVerts(me, loop_vertex, p)}
            IN  IF faces = Polys(me)
                THEN loop_normal[l]
                       = normalized(Add(poly_normal[1], poly_normal[2]))
                ELSE \A p \in faces : loop_normal[l] = poly_normal[p]

\* the two triangles face different ways and every loop got a new normal
C9_Witness ==
    /\ QuadSmoothed
    /\ poly_normal[1] # poly_normal[2]
    /\ poly_normal[1] # Neg(poly_normal[2])
    /\ \A l \in Loops(me) : loop_normal[l] # In[l]

\* C10: the object-mode functions are entered in OBJECT mode, the edit-mesh
\* readers and the topology flip run in EDIT mode, and execute() returns in
\* the mode it was invoked in.
C10_ModeProtocol ==
    /\ pc \in {"set_smooth_normals", "flip_normals",
               "normals_split_custom_set", "harden_normals",
               "set_specific_normal_vector"} => mode = "OBJECT"
    /\ pc \in {"get_smoothed_vertex_normals", "get_face_weighted_normals",
               "from_edit_mesh", "mesh.flip_normals"} => mode = "EDIT"
    /\ Returned => mode = opr.initial_mode

\* FaceWeightedNormals, invoked in OBJECT mode, has returned
C10_Witness ==
    /\ Returned
    /\ opr.name = "FaceWeightedNormals"
    /\ opr.initial_mode = "OBJECT"
    /\ loop_normal # In

====
